---- MODULE Spec2Model ----
(***************************************************************************)
(* Model of aetros/client.py: BackendClient / JobClient.                   *)
(*                                                                         *)
(* One record `self` holds the fields of the client object (the names are  *)
(* the attribute names of the source).  Every channel has a writer thread  *)
(* (thread_write) and a reader thread (thread_read); `tw` and `tr` hold    *)
(* their frames (position and locals).  `main` is the frame of the thread  *)
(* that drives the lifecycle calls.  A thread step is the code between two *)
(* blocking calls (transport I/O, lock acquire, sleep), split further at   *)
(* the check-then-act points on shared flags.                              *)
(*                                                                         *)
(* The transport provider (create_ssh_stream and the handle it returns)    *)
(* and the peer are the environment: every call on them chooses one of the *)
(* outcomes the call can have.                                             *)
(***************************************************************************)
EXTENDS Integers, Sequences, FiniteSets, TLC

\* ------------------------------------------------------------------ bounds
\* send() calls made in one behaviour
MaxSend == 2
\* failures the environment injects: a transport call raising, an
\* end-of-stream, a handshake answer that does not register
MaxFaults == 1
\* record batches the peer sends after a channel's registration answer
MaxReads == 2
\* lifecycle calls (wait_sending_last_messages, end, close) the caller makes
MaxCalls == 1

\* ------------------------------------------------------- program constants
BUFFER_SIZE == 100 * 1024
SOFT_CAP == 1024 * 1024

\* the primary channel and one more
Primary == ""
Channels == {Primary, "b"}

\* payload lengths a caller hands to send(): one chunk, two chunks, and one
\* payload that alone exceeds the per-iteration cap
Sizes == {7, BUFFER_SIZE + 1, SOFT_CAP + 1}

VARIABLES
    self,       \* the client object
    tw,         \* tw[c]: frame of thread_write(c)
    tr,         \* tr[c]: frame of thread_read(c)
    main,       \* frame of the thread calling start/end/close/wait_sending_last_messages
    lock,       \* self.lock: "free" or the thread holding it
    wire,       \* wire[c]: the chunks written to channel c's stdin, in order, and
                \* the writes that raised
    accepted,   \* accepted[c]: the messages send() appended to queues[c], in order
    env,        \* what the environment may still do: the faults, record batches and
                \* send() calls left, the payload sizes and the channels of start()
    hist        \* what happened: the stop records dispatched, the channels with a
                \* failed write, why send() calls were refused, the channels that
                \* were connected and registered when the drain was requested,
                \* the end() call (how it was called, the last message id then,
                \* whether it returned), a 'Permission denied' diagnostic

vars == <<self, tw, tr, main, lock, wire, accepted, env, hist>>

\* ----------------------------------------------------------------- helpers
EmptyDict == [x \in {} |-> FALSE]

DictSet(d, k, v) == [x \in (DOMAIN d) \cup {k} |-> IF x = k THEN v ELSE d[x]]

Min(a, b) == IF a < b THEN a ELSE b

EventNames == {"offline", "disconnect", "close", "registration",
               "registration_failed", "aborted", "stop",
               "parameter_changed", "action"}

\* event_listener.fire(name)
fire(s, name) == [s EXCEPT !.fired[name] = @ + 1]

is_connected(s, channel) ==
    channel \in DOMAIN s.connected /\ s.connected[channel]

is_registered(s, channel) ==
    channel \in DOMAIN s.registered /\ s.registered[channel]

\* truth value of `self.ssh_stream[channel]`: None is false, a handle object
\* (open or closed) is true
HandleTruthy(h) == h \in {"open", "closed"}

\* The peer sends a record as the bytes of Frame, one after the other;
\* inbound[channel] is the record the peer is in the middle of on the
\* channel's stream and the number of its bytes already read (none: NoRecord)
Frame == <<"head", "body">>

NoRecord == [rec |-> 0, k |-> 0]

\* A stream object (the stdin and stdout of one exec_command) is named by its
\* state: "open", or "dead" once its handle was closed; "None" is no object.
Dead(file) == IF file = "open" THEN "dead" ELSE file

\* ssh_stream[channel].close(): the handle and every stream opened on it
\* close, also a stream the client no longer refers to but the reader thread
\* is still blocked on
close_stream(s, channel) ==
    [s EXCEPT !.ssh_stream[channel] = "closed",
              !.streams[channel] = 0,
              !.inbound[channel] = NoRecord,
              !.ssh_stream_stdins[channel] = Dead(@),
              !.ssh_stream_stdouts[channel] = Dead(@),
              !.reading[channel] = IF @ = "old_open" THEN "old_dead" ELSE @]

go_offline(s) ==
    IF ~s.online THEN s
    ELSE [fire(s, "offline") EXCEPT !.online = FALSE]

\* a connection_error that reports also while a close is expected
connection_error_reported(s, channel) ==
    IF ~s.active THEN s
    ELSE LET s1 == IF HandleTruthy(s.ssh_stream[channel])
                   THEN close_stream(s, channel) ELSE s
         IN [fire(s1, "disconnect") EXCEPT !.connected = EmptyDict,
                                           !.registered = EmptyDict,
                                           !.connection_errors = @ + 1]

connection_error(s, channel) ==
    IF ~s.active THEN s
    ELSE LET s1 == IF HandleTruthy(s.ssh_stream[channel])
                   THEN close_stream(s, channel) ELSE s
         IN IF s1.expect_close THEN s1
            ELSE [fire(s1, "disconnect") EXCEPT
                    !.connected = EmptyDict,
                    !.registered = EmptyDict,
                    !.connection_errors = @ + 1]

\* ---------------------------------------------------------------- messages
\* a queue entry: the dict send() builds (the payload is named by its id)
Message(id, total) ==
    [id |-> id, total |-> total, sending |-> FALSE, sent |-> FALSE]

\* the queue with the entry of this id changed by f (the entries are shared
\* objects: the writer's snapshot and the queue hold the same dicts)
UpdateMsg(q, id, field, v) ==
    [k \in DOMAIN q |-> IF q[k].id = id
                        THEN [q[k] EXCEPT ![field] = v] ELSE q[k]]

MsgOf(q, id) == q[CHOOSE k \in DOMAIN q : q[k].id = id]

InQueue(q, id) == \E k \in DOMAIN q : q[k].id = id

RECURSIVE RemoveIds(_, _)
RemoveIds(q, ids) ==
    IF q = <<>> THEN <<>>
    ELSE IF Head(q).id \in ids THEN RemoveIds(Tail(q), ids)
         ELSE <<Head(q)>> \o RemoveIds(Tail(q), ids)

Range(f) == {f[k] : k \in DOMAIN f}

\* ----------------------------------------------------------------- frames
\* (a frame's locals return to these values when the code is done with them)
WriterIdle == [pc |-> "off", queue_copy |-> <<>>, i |-> 0, sent |-> <<>>,
               sent_size |-> 0, msg |-> 0, data |-> 0, messages |-> <<>>]

ReaderIdle == [pc |-> "off", messages |-> <<>>]

InitWith(budget) ==
    /\ self = [active |-> FALSE, online |-> TRUE, expect_close |-> FALSE,
               external_stopped |-> FALSE, in_connecting |-> FALSE,
               stop_on_empty_queue |-> FALSE,
               go_offline_on_first_failed_attempt |-> TRUE,
               message_id |-> 0, connection_errors |-> 0, connection_tries |-> 0,
               queues |-> [c \in Channels |-> <<>>],
               ssh_stream |-> [c \in Channels |-> "None"],
               ssh_stream_stdins |-> [c \in Channels |-> "None"],
               ssh_stream_stdouts |-> [c \in Channels |-> "None"],
               streams |-> [c \in Channels |-> 0],
               reading |-> [c \in Channels |-> "none"],
               connected |-> EmptyDict, registered |-> EmptyDict,
               was_connected_once |-> [c \in Channels |-> FALSE],
               fired |-> [e \in EventNames |-> 0],
               stop_force |-> <<>>,
               read_unpacker |-> <<>>,
               inbound |-> [c \in Channels |-> NoRecord]]
    /\ tw = [c \in Channels |-> WriterIdle]
    /\ tr = [c \in Channels |-> ReaderIdle]
    /\ main = [pc |-> "new", todo |-> {}, was_online |-> FALSE, closed |-> FALSE]
    /\ lock = "free"
    /\ wire = [c \in Channels |-> <<>>]
    /\ accepted = [c \in Channels |-> <<>>]
    /\ env = budget
    /\ hist = [stops_seen |-> <<>>, write_failed |-> [c \in Channels |-> FALSE],
               refused |-> {}, drain_on |-> {},
               end_call |-> "none", end_id |-> 0, end_returned |-> FALSE,
               denied |-> FALSE,
               on_connect |-> [c \in Channels |-> "none"],
               decoded |-> {}]

\* ------------------------------------------------------------ caller's API
\* start(channels): line 112
Start ==
    /\ main.pc = "new"
    /\ self' = [self EXCEPT
                  !.active = TRUE,
                  !.queues = [c \in Channels |-> <<>>],
                  !.ssh_stream = [c \in Channels |-> "None"],
                  !.ssh_stream_stdins = [c \in Channels |-> "None"],
                  !.ssh_stream_stdouts = [c \in Channels |-> "None"],
                  !.was_connected_once = [c \in Channels |-> FALSE]]
    /\ tw' = [c \in Channels |-> IF c \in env.chans
                                  THEN [WriterIdle EXCEPT !.pc = "loop"] ELSE WriterIdle]
    /\ tr' = [c \in Channels |-> IF c \in env.chans
                                  THEN [ReaderIdle EXCEPT !.pc = "loop"] ELSE ReaderIdle]
    /\ main' = [main EXCEPT !.pc = "idle"]
    /\ UNCHANGED <<lock, wire, accepted, env, hist>>

\* a send() that still queues while the client drains
send_while_draining(s, size, channel) ==
    IF ~(s.active /\ s.online) THEN s
    ELSE [s EXCEPT !.message_id = @ + 1,
                   !.queues[channel] = Append(@, Message(s.message_id + 1, size))]

\* send(data, channel): lines 447-465
send(s, size, channel) ==
    IF ~(s.active /\ s.online) THEN s
    ELSE IF s.stop_on_empty_queue THEN s
    ELSE [s EXCEPT !.message_id = @ + 1,
                   !.queues[channel] = Append(@, Message(s.message_id + 1, size))]

Send(size, channel) ==
    /\ env.sends > 0
    /\ size \in env.sizes
    /\ channel \in env.sendto
    /\ self' = send(self, size, channel)
    /\ accepted' = IF self'.message_id # self.message_id
                   THEN [accepted EXCEPT ![channel] =
                            Append(@, [id |-> self'.message_id, total |-> size])]
                   ELSE accepted
    /\ env' = [env EXCEPT !.sends = @ - 1]
    /\ hist' = [hist EXCEPT !.refused = @ \cup
                    (IF ~self.active THEN {"inactive"}
                     ELSE IF ~self.online THEN {"offline"}
                     ELSE IF self.stop_on_empty_queue THEN {"drain"} ELSE {})]
    /\ UNCHANGED <<tw, tr, main, lock, wire>>

\* on_sigint: line 108
OnSigint ==
    /\ main.pc # "new"
    /\ self' = [self EXCEPT !.expect_close = TRUE]
    /\ UNCHANGED <<tw, tr, main, lock, wire, accepted, env, hist>>

\* ------------------------------------------------------- transport calls
\* The environment may inject a fault while its budget lasts.
CanFault == env.faults > 0

Fault == [env EXCEPT !.faults = @ - 1]

\* a write or read through self.ssh_stream_stdins/stdouts[channel] can
\* succeed only on a stream whose handle has not been closed
StreamUsable(s, channel, file) == s[file][channel] = "open"

\* the chunk send_message writes next: buf = data[:BUFFER_SIZE]
ChunkLen(data) == Min(data, BUFFER_SIZE)

\* one entry of wire[c]: bytes [off, off + len) of the payload of message id
\* were written by `by` (id 0: a message that is not a queue entry)
Chunk(id, total, data, by) ==
    [id |-> id, off |-> total - data, len |-> ChunkLen(data), by |-> by, ok |-> TRUE]

\* the write of the chunk at this offset raised (noted once when it repeats)
Raised(log, id, total, data, by) ==
    LET e == [id |-> id, off |-> total - data, len |-> ChunkLen(data), by |-> by,
              ok |-> FALSE]
    IN IF log # <<>> /\ log[Len(log)] = e THEN log ELSE Append(log, e)

\* --------------------------------------------------- thread_write: the loop
SetW(c, f) == tw' = [tw EXCEPT ![c] = f]

\* a pass that leaves the stale `_sending` flags as they are
KeepSending(q) == q

\* the `_sending` reset of lines 316-318
ResetSending(q) ==
    [k \in DOMAIN q |-> IF q[k].sending /\ ~q[k].sent
                        THEN [q[k] EXCEPT !.sending = FALSE] ELSE q[k]]

\* a snapshot that walks the queue back to front
SnapshotReversed(q) == [k \in DOMAIN q |-> q[Len(q) + 1 - k].id]

\* line 310: queue_copy = self.queues[channel][:] (the entries, by id)
Snapshot(q) == [k \in DOMAIN q |-> q[k].id]

\* a send_message that resumes behind the chunks written before a failure
ResumedData(m, log) ==
    LET w == SelectSeq(log, LAMBDA e : e.by = "writer")
    IN IF w # <<>> /\ w[Len(w)].id = m.id /\ ~w[Len(w)].ok
       THEN m.total - w[Len(w)].off ELSE m.total

\* lines 476-478: send_message starts from the whole payload
InitialData(m, log) == m.total

\* a removal that drops every queued message
RemoveEvery(q, sent) == <<>>

\* lines 338-340: the messages of `sent` leave the queue
RemoveSent(q, sent) == RemoveIds(q, Range(sent))

\* lines 307-314: loop head, snapshot, reset of stale `_sending` flags
W_Loop(c) ==
    /\ tw[c].pc = "loop"
    /\ IF ~self.active
       THEN SetW(c, [tw[c] EXCEPT !.pc = "done"]) /\ UNCHANGED self
       ELSE IF ~self.online
       THEN UNCHANGED <<tw, self>>
       ELSE IF is_connected(self, c) /\ is_registered(self, c)
       THEN /\ SetW(c, [tw[c] EXCEPT
                    !.pc = "walk",
                    !.queue_copy = Snapshot(self.queues[c]),
                    !.i = 1, !.sent = <<>>, !.sent_size = 0])
            /\ self' = [self EXCEPT !.queues[c] = ResetSending(@)]
       ELSE SetW(c, [tw[c] EXCEPT !.pc = "check"]) /\ UNCHANGED self
    /\ UNCHANGED <<tr, main, lock, wire, accepted, env, hist>>

\* a walk that never looks at the channel's flags again
NoRecheck(s, channel) == TRUE

\* lines 321-323 (and 471-472): the check made before every message
StillUsable(s, channel) == is_connected(s, channel) /\ is_registered(s, channel)

\* lines 320-326 and 471-481: the walk reaches message i of the snapshot
W_Walk(c) ==
    /\ tw[c].pc = "walk"
    /\ LET f == tw[c] IN
       IF f.i > Len(f.queue_copy)
       THEN SetW(c, [f EXCEPT !.pc = "remove"]) /\ UNCHANGED self
       ELSE IF ~StillUsable(self, c)
       THEN SetW(c, [f EXCEPT !.pc = "remove"]) /\ UNCHANGED self
       ELSE LET m == MsgOf(self.queues[c], f.queue_copy[f.i]) IN
            IF ~m.sending /\ ~m.sent
            THEN /\ self' = [self EXCEPT !.queues[c] = UpdateMsg(@, m.id, "sending", TRUE)]
                 /\ SetW(c, [f EXCEPT !.pc = "write", !.msg = m.id,
                                       !.data = InitialData(m, wire[c])])
            ELSE SetW(c, [f EXCEPT !.i = @ + 1]) /\ UNCHANGED self
    /\ UNCHANGED <<tr, main, lock, wire, accepted, env, hist>>

\* a walk without a cap
CapNever(sent_size) == FALSE

\* line 332: the bytes sent in this iteration are above the soft cap
CapReached(sent_size) == sent_size > SOFT_CAP

\* lines 505-521 and 327-333: one chunk is written; after the last one the
\* message is marked sent and joins the `sent` list
W_WriteOk(c) ==
    /\ tw[c].pc = "write"
    /\ StreamUsable(self, c, "ssh_stream_stdins")
    /\ LET f == tw[c]
           m == MsgOf(self.queues[c], f.msg)
           left == f.data - ChunkLen(f.data)
       IN /\ wire' = [wire EXCEPT ![c] = Append(@, Chunk(m.id, m.total, f.data, "writer"))]
          /\ IF left > 0
             THEN SetW(c, [f EXCEPT !.data = left]) /\ UNCHANGED self
             ELSE /\ self' = [self EXCEPT !.queues[c] = UpdateMsg(@, m.id, "sent", TRUE)]
                  /\ SetW(c, [f EXCEPT
                        !.data = 0,
                        !.msg = 0,
                        !.sent = Append(@, m.id),
                        !.sent_size = @ + m.total,
                        !.i = IF CapReached(f.sent_size + m.total) THEN @ ELSE @ + 1,
                        !.pc = IF CapReached(f.sent_size + m.total) THEN "remove" ELSE "walk"])
    /\ UNCHANGED <<tr, main, lock, accepted, env, hist>>

\* lines 528-530 and 334-335: the write raises; connection_error, then break
W_WriteFail(c) ==
    /\ tw[c].pc = "write"
    /\ \/ ~StreamUsable(self, c, "ssh_stream_stdins") /\ UNCHANGED env
       \/ CanFault /\ env' = Fault
    /\ hist' = [hist EXCEPT !.write_failed[c] = TRUE]
    /\ wire' = [wire EXCEPT ![c] =
                  Raised(@, tw[c].msg, MsgOf(self.queues[c], tw[c].msg).total,
                         tw[c].data, "writer")]
    /\ self' = connection_error(self, c)
    /\ SetW(c, [tw[c] EXCEPT !.pc = "remove", !.msg = 0, !.data = 0])
    /\ UNCHANGED <<tr, main, lock, accepted>>

\* lines 337-345: under the lock, the messages of `sent` leave the queue;
\* then the drain flag ends the thread
W_Remove(c) ==
    /\ tw[c].pc = "remove"
    /\ lock = "free"
    /\ self' = [self EXCEPT !.queues[c] = RemoveSent(@, tw[c].sent)]
    /\ SetW(c, [WriterIdle EXCEPT !.pc = IF self.stop_on_empty_queue THEN "done" ELSE "check"])
    /\ UNCHANGED <<tr, main, lock, wire, accepted, env, hist>>

\* line 351: does the thread call connect()?
W_Check(c) ==
    /\ tw[c].pc = "check"
    /\ SetW(c, [tw[c] EXCEPT !.pc =
            IF self.active /\ ~is_connected(self, c) /\ ~self.expect_close
            THEN "connect" ELSE "loop"])
    /\ UNCHANGED <<self, tr, main, lock, wire, accepted, env, hist>>

\* ------------------------------------------------------- inbound records
\* the records the peer sends: control records {a: ...} and {type: 'action'}
Stop(force) == [a |-> "stop", type |-> "none", force |-> force]

Records == {Stop(TRUE), Stop(FALSE),
            [a |-> "parameter-changed", type |-> "none", force |-> FALSE],
            [a |-> "none", type |-> "action", force |-> FALSE]}

\* what one read can decode: one record, or two that arrived together
Batches == {<<r>> : r \in Records} \cup
           {<<r1, r2>> : r1 \in {Stop(TRUE), Stop(FALSE)}, r2 \in Records}

\* a handle_messages that fires 'stop' for every stop record
RECURSIVE handle_every_stop(_, _)
handle_every_stop(s, messages) ==
    IF messages = <<>> THEN s
    ELSE LET message == Head(messages)
             s1 == IF message.a = "stop"
                   THEN [fire(s, "stop") EXCEPT
                            !.external_stopped = TRUE,
                            !.stop_force = Append(@, message.force)]
                   ELSE s
         IN handle_every_stop(s1, Tail(messages))

\* BackendClient.handle_messages, lines 532-544: the first stop record sets
\* external_stopped and fires 'stop' with its force value
RECURSIVE base_handle_messages(_, _)
base_handle_messages(s, messages) ==
    IF messages = <<>> THEN s
    ELSE LET message == Head(messages)
             s1 == IF message.a # "none" /\ ~s.external_stopped /\ message.a = "stop"
                   THEN [fire(s, "stop") EXCEPT
                            !.external_stopped = TRUE,
                            !.stop_force = Append(@, message.force)]
                   ELSE s
         IN base_handle_messages(s1, Tail(messages))

\* JobClient.handle_messages, lines 660-666: the events of one record
job_message(s, message) ==
    LET s2 == IF message.a = "parameter-changed" THEN fire(s, "parameter_changed") ELSE s
    IN IF message.type = "action" THEN fire(s2, "action") ELSE s2

\* the force values of the stop records of a batch, in order (for env.stops_seen)
RECURSIVE StopsOf(_)
StopsOf(messages) ==
    IF messages = <<>> THEN <<>>
    ELSE (IF Head(messages).a = "stop" THEN <<Head(messages).force>> ELSE <<>>)
         \o StopsOf(Tail(messages))

\* ------------------------------------------------------------- connect()
\* lines 237-240: an exception inside connect()
ConnectRaised(s, channel) ==
    [connection_error(s, channel) EXCEPT !.in_connecting = FALSE]

\* a failure path that goes offline whether or not the channel was connected before
ConnectFailedOffline(s, channel, denied) ==
    LET s1 == [s EXCEPT !.connected = DictSet(@, channel, FALSE)] IN
    IF ~HandleTruthy(s1.ssh_stream[channel])
    THEN ConnectRaised(s1, channel)
    ELSE LET s2 == [close_stream(s1, channel) EXCEPT !.connection_tries = @ + 1]
             s3 == IF s2.go_offline_on_first_failed_attempt THEN go_offline(s2) ELSE s2
         IN IF denied THEN ConnectRaised(s3, channel)
            ELSE [connection_error(s3, channel) EXCEPT !.in_connecting = FALSE]

\* lines 206-233: the channel is not registered after the attempt.  `denied`:
\* stderr names 'Permission denied'; close(channel) then raises (close takes no
\* argument) and the exception handler of line 237 runs
ConnectFailed(s, channel, denied) ==
    LET s1 == [s EXCEPT !.connected = DictSet(@, channel, FALSE)] IN
    IF ~HandleTruthy(s1.ssh_stream[channel])
    THEN ConnectRaised(s1, channel)
    ELSE LET s2 == [close_stream(s1, channel) EXCEPT !.connection_tries = @ + 1]
             s3 == IF ~s2.was_connected_once[channel]
                      /\ s2.go_offline_on_first_failed_attempt
                   THEN go_offline(s2) ELSE s2
         IN IF denied THEN ConnectRaised(s3, channel)
            ELSE [connection_error(s3, channel) EXCEPT !.in_connecting = FALSE]

\* line 206 reads self.registered[channel]: a KeyError when another
\* connection_error has replaced the dict meanwhile
ConnectTail(s, channel, denied) ==
    IF channel \notin DOMAIN s.registered THEN ConnectRaised(s, channel)
    ELSE IF ~s.registered[channel] THEN ConnectFailed(s, channel, denied)
    ELSE [s EXCEPT !.was_connected_once[channel] = TRUE, !.in_connecting = FALSE]

\* lines 159-163: the in_connecting guard is read ...
C_Guard(c) ==
    /\ tw[c].pc = "connect"
    /\ SetW(c, [tw[c] EXCEPT !.pc = IF self.in_connecting THEN "loop" ELSE "enter"])
    /\ UNCHANGED <<self, tr, main, lock, wire, accepted, env, hist>>

\* ... and set (line 165); lines 170-171 return at once when the channel is
\* connected or the client offline (the finally clears in_connecting)
C_Enter(c) ==
    /\ tw[c].pc = "enter"
    /\ IF is_connected(self, c) \/ ~self.online
       THEN /\ self' = [self EXCEPT !.in_connecting = FALSE]
            /\ SetW(c, [tw[c] EXCEPT !.pc = "loop"])
       ELSE /\ self' = [self EXCEPT !.in_connecting = TRUE]
            /\ SetW(c, [tw[c] EXCEPT !.pc = "lock"])
    /\ UNCHANGED <<tr, main, lock, wire, accepted, env, hist>>

\* lines 173-180: the lock is taken and the channel's state reset
C_Lock(c) ==
    /\ tw[c].pc = "lock"
    /\ lock = "free"
    /\ lock' = c
    /\ self' = [self EXCEPT
                  !.connected = DictSet(@, c, FALSE),
                  !.registered = DictSet(@, c, FALSE),
                  !.ssh_stream_stdins[c] = "None",
                  !.ssh_stream_stdouts[c] = "None",
                  !.reading[c] = IF @ # "cur" THEN @
                                 ELSE IF self.ssh_stream_stdouts[c] = "open"
                                 THEN "old_open" ELSE "old_dead"]
    /\ SetW(c, [tw[c] EXCEPT !.pc = "open"])
    /\ UNCHANGED <<tr, main, wire, accepted, env, hist>>

\* the transport provider yields a stream on a fresh handle, on an open
\* handle, and again after a close (its open() is not bound to one use)
CanOpenStream(h) == h \in {"None", "open", "closed"}

\* lines 182-195: create_ssh_stream when there is no handle, then
\* exec_command('stream') on the handle; both succeed
C_OpenOk(c) ==
    /\ tw[c].pc = "open"
    /\ CanOpenStream(self.ssh_stream[c])
    /\ self' = [self EXCEPT
                  !.ssh_stream[c] = "open",
                  !.inbound[c] = NoRecord,
                  !.streams[c] = IF self.ssh_stream[c] = "open" THEN @ + 1 ELSE 1,
                  !.ssh_stream_stdins[c] = "open",
                  !.ssh_stream_stdouts[c] = "open"]
    /\ lock' = "free"
    /\ SetW(c, [tw[c] EXCEPT !.pc = "first"])
    /\ hist' = [hist EXCEPT !.on_connect[c] = "none"]
    /\ UNCHANGED <<tr, main, wire, accepted, env>>

\* lines 192-195 and 237-240: create_ssh_stream raises, or it returns a handle
\* and exec_command raises, or the dict has lost the channel's key
C_OpenRaise(c) ==
    /\ tw[c].pc = "open"
    /\ \/ /\ self.ssh_stream[c] = "nokey"
          /\ UNCHANGED env
          /\ self' = ConnectRaised(self, c)
       \/ /\ CanFault
          /\ env' = Fault
          /\ self.ssh_stream[c] # "nokey"
          /\ \/ self' = ConnectRaised(self, c)
             \/ /\ self.ssh_stream[c] = "None"
                /\ self' = ConnectRaised([self EXCEPT !.ssh_stream[c] = "open"], c)
    /\ lock' = "free"
    /\ SetW(c, [tw[c] EXCEPT !.pc = "loop"])
    /\ UNCHANGED <<tr, main, wire, accepted, hist>>

\* lines 197-204: wait_for_at_least_one_message returns the peer's first
\* frame; the channel is connected and on_connect starts by sending the
\* registration request (send_message, lines 471-474)
C_FirstOk(c) ==
    /\ tw[c].pc = "first"
    /\ StreamUsable(self, c, "ssh_stream_stdouts")
    /\ self' = [self EXCEPT !.connected = DictSet(@, c, TRUE)]
    /\ SetW(c, [tw[c] EXCEPT !.pc = "hs_send"])
    /\ hist' = [hist EXCEPT !.on_connect[c] = IF @ = "none" THEN "called" ELSE "again"]
    /\ UNCHANGED <<tr, main, lock, wire, accepted, env>>

\* lines 555-563: the read of the first frame reports end-of-stream
\* (connection_error, no messages, stderr is read) or raises
\* (connection_error, and the handler of line 237 calls it again)
C_FirstFail(c) ==
    /\ tw[c].pc = "first"
    /\ \/ ~StreamUsable(self, c, "ssh_stream_stdouts") /\ UNCHANGED env
       \/ CanFault /\ env' = Fault
    /\ \/ \E denied \in BOOLEAN :
             /\ self' = ConnectTail(connection_error(self, c), c, denied)
             /\ hist' = [hist EXCEPT !.denied = @ \/ denied]
       \/ self' = ConnectRaised(connection_error(self, c), c) /\ UNCHANGED hist
    /\ SetW(c, [tw[c] EXCEPT !.pc = "loop"])
    /\ UNCHANGED <<tr, main, lock, wire, accepted>>

\* lines 610-617: the registration request is written (one chunk), or the
\* write raises and send_message calls connection_error; on_connect goes on
C_HsSend(c) ==
    /\ tw[c].pc = "hs_send"
    /\ \/ /\ StreamUsable(self, c, "ssh_stream_stdins")
          /\ wire' = [wire EXCEPT ![c] = Append(@, Chunk(0, 1, 1, "on_connect"))]
          /\ UNCHANGED <<self, env>>
       \/ /\ \/ ~StreamUsable(self, c, "ssh_stream_stdins") /\ UNCHANGED env
             \/ CanFault /\ env' = Fault
          /\ self' = connection_error(self, c)
          /\ UNCHANGED wire
    /\ SetW(c, [tw[c] EXCEPT !.pc = "hs_wait"])
    /\ UNCHANGED <<tr, main, lock, accepted, hist>>

\* a connect() that takes every return of on_connect for a registration
AfterOnConnectAny(s, channel, result) ==
    ConnectTail([s EXCEPT !.registered = DictSet(@, channel, TRUE)], channel, FALSE)

\* on_connect returned `result`: line 204 stores it, lines 206-240 follow
AfterOnConnect(s, channel, result) ==
    ConnectTail([s EXCEPT !.registered = DictSet(@, channel, result)], channel, FALSE)

\* lines 620-651: the peer's answer to the registration request
on_connect_answer(s, channel, a) ==
    CASE a = "aborted" ->
           [(IF channel = Primary THEN fire(s, "aborted") ELSE s) EXCEPT !.active = FALSE]
      [] a = "registration_failed" ->
           IF channel = Primary THEN fire(s, "registration_failed") ELSE s
      [] OTHER -> s

\* lines 627-641 and 650-651: the peer's first record is `a`, which does not
\* register the channel
C_HsAnswer(c, a) ==
    /\ tw[c].pc = "hs_wait"
    /\ StreamUsable(self, c, "ssh_stream_stdouts")
    /\ CanFault
    /\ env' = Fault
    /\ self' = AfterOnConnect(on_connect_answer(self, c, a), c, FALSE)
    /\ SetW(c, [tw[c] EXCEPT !.pc = "loop"])
    /\ hist' = [hist EXCEPT !.on_connect[c] = "false"]
    /\ UNCHANGED <<tr, main, lock, wire, accepted>>

\* the peer answers with one record that does not register the channel
C_HsRejected(c) ==
    \E a \in {"aborted", "registration_failed", "other"} : C_HsAnswer(c, a)

\* lines 643-647: the peer answers 'registered', possibly with more records
\* in the same batch, which handle_messages gets next
C_HsRegistered(c) ==
    /\ tw[c].pc = "hs_wait"
    /\ StreamUsable(self, c, "ssh_stream_stdouts")
    /\ \E rest \in {<<>>} \cup (IF env.reads > 0 THEN Batches ELSE {}) :
          /\ SetW(c, [tw[c] EXCEPT !.pc = "hs_dispatch", !.messages = rest])
          /\ env' = IF rest = <<>> THEN env ELSE [env EXCEPT !.reads = @ - 1]
    /\ LET s1 == [self EXCEPT !.registered = DictSet(@, c, TRUE)]
       IN self' = IF c = Primary THEN fire(s1, "registration") ELSE s1
    /\ UNCHANGED <<tr, main, lock, wire, accepted, hist>>

\* lines 623-625: no answer (end-of-stream): connection_error, then
\* 'registration_failed' is fired and on_connect returns False;
\* or the read raises through on_connect into the handler of line 237
C_HsNoAnswer(c) ==
    /\ tw[c].pc = "hs_wait"
    /\ \/ ~StreamUsable(self, c, "ssh_stream_stdouts") /\ UNCHANGED env
       \/ CanFault /\ env' = Fault
    /\ \/ /\ self' = AfterOnConnect(fire(connection_error(self, c), "registration_failed"),
                                    c, FALSE)
          /\ hist' = [hist EXCEPT !.on_connect[c] = "false"]
       \/ /\ self' = ConnectRaised(connection_error(self, c), c)
          /\ hist' = [hist EXCEPT !.on_connect[c] = "raised"]
    /\ SetW(c, [tw[c] EXCEPT !.pc = "loop"])
    /\ UNCHANGED <<tr, main, lock, wire, accepted>>

\* line 647: handle_messages: the base class handles the batch under the
\* lock (line 654); with no record left on_connect returns True and connect()
\* goes on (lines 648, 204, 206, 235, 240)
C_HsDispatch(c) ==
    /\ tw[c].pc = "hs_dispatch"
    /\ lock = "free"
    /\ LET s1 == base_handle_messages(self, tw[c].messages)
       IN IF tw[c].messages = <<>>
          THEN /\ self' = AfterOnConnect(s1, c, TRUE)
               /\ SetW(c, [tw[c] EXCEPT !.pc = "loop"])
          ELSE /\ self' = s1
               /\ SetW(c, [tw[c] EXCEPT !.pc = "hs_job"])
    /\ hist' = [hist EXCEPT !.stops_seen = @ \o StopsOf(tw[c].messages),
                            !.on_connect[c] = IF tw[c].messages = <<>> THEN "true" ELSE @]
    /\ UNCHANGED <<tr, main, lock, wire, accepted, env>>

\* lines 655-657, without the lock: the next record of the batch is skipped
\* when an external stop is recorded; after the last one connect() goes on
C_HsJob(c) ==
    /\ tw[c].pc = "hs_job"
    /\ IF tw[c].messages = <<>>
       THEN /\ self' = AfterOnConnect(self, c, TRUE)
            /\ SetW(c, [tw[c] EXCEPT !.pc = "loop"])
            /\ hist' = [hist EXCEPT !.on_connect[c] = "true"]
       ELSE /\ UNCHANGED <<self, hist>>
            /\ SetW(c, IF self.external_stopped
                        THEN [tw[c] EXCEPT !.messages = Tail(@)]
                        ELSE [tw[c] EXCEPT !.pc = "hs_job_fire"])
    /\ UNCHANGED <<tr, main, lock, wire, accepted, env>>

\* lines 659-666: the events of the record are fired
C_HsJobFire(c) ==
    /\ tw[c].pc = "hs_job_fire"
    /\ self' = job_message(self, Head(tw[c].messages))
    /\ SetW(c, [tw[c] EXCEPT !.pc = "hs_job", !.messages = Tail(@)])
    /\ UNCHANGED <<tr, main, lock, wire, accepted, env, hist>>

\* ------------------------------------------------------------ thread_read
SetR(c, f) == tr' = [tr EXCEPT ![c] = f]

\* the stream thread_read(c) is blocked on: the one stdouts[c] named when the
\* read began ("cur" while stdouts[c] still names it)
ReadingOpen(s, c) ==
    \/ s.reading[c] = "cur" /\ s.ssh_stream_stdouts[c] = "open"
    \/ s.reading[c] = "old_open"

\* lines 360-365: the loop head; the read starts on self.ssh_stream_stdouts[c]
R_Loop(c) ==
    /\ tr[c].pc = "loop"
    /\ IF ~self.active
       THEN SetR(c, [tr[c] EXCEPT !.pc = "done"]) /\ UNCHANGED self
       ELSE IF self.online /\ is_connected(self, c) /\ is_registered(self, c)
       THEN /\ SetR(c, [tr[c] EXCEPT !.pc = "read"])
            /\ self' = [self EXCEPT !.reading[c] =
                          IF self.ssh_stream_stdouts[c] = "None" THEN "none" ELSE "cur"]
       ELSE UNCHANGED <<tr, self>>
    /\ UNCHANGED <<tw, main, lock, wire, accepted, env, hist>>

\* lines 365 and 578-595: the blocking read returns decoded records
R_ReadOk(c) ==
    /\ tr[c].pc = "read"
    /\ ReadingOpen(self, c)
    /\ env.reads > 0
    /\ \E messages \in Batches : SetR(c, [tr[c] EXCEPT !.pc = "dispatch", !.messages = messages])
    /\ env' = [env EXCEPT !.reads = @ - 1]
    /\ self' = [self EXCEPT !.reading[c] = "none"]
    /\ UNCHANGED <<tw, main, lock, wire, accepted, hist>>

\* the byte the peer sends next on channel c: the next byte of the record it
\* is in the middle of, or the first byte of a new record
NextByte(s, c, fresh) ==
    LET at == IF s.inbound[c].k = 0 THEN [rec |-> fresh, k |-> 0] ELSE s.inbound[c]
    IN [ch |-> c, rec |-> at.rec, k |-> at.k + 1, kind |-> Frame[at.k + 1]]

\* line 589 and line 592: the unpacker gets the byte; with the last byte of
\* a frame in its buffer it yields one record and the buffer is empty again
feed(buffer, byte) ==
    LET b == Append(buffer, byte)
    IN IF Len(b) = Len(Frame) THEN [buffer |-> <<>>, messages |-> <<b>>]
       ELSE [buffer |-> b, messages |-> <<>>]

\* lines 578-595 and 365-369: read(1) returns one byte of the channel's
\* stream; it is fed to self.read_unpacker, the one unpacker of the client
\* (line 106); a record that is complete is handed to handle_messages (an
\* application record: no flag changes, no event)
R_ReadByte(c) ==
    /\ tr[c].pc = "read"
    /\ self.reading[c] = "cur"
    /\ ReadingOpen(self, c)
    /\ self.inbound[c].k > 0 \/ env.reads > 0
    /\ LET byte == NextByte(self, c, env.reads)
           out == feed(self.read_unpacker, byte)
       IN /\ self' = [self EXCEPT
                        !.reading[c] = "none",
                        !.read_unpacker = out.buffer,
                        !.inbound[c] = IF byte.k = Len(Frame) THEN NoRecord
                                       ELSE [rec |-> byte.rec, k |-> byte.k]]
          /\ env' = IF self.inbound[c].k = 0 THEN [env EXCEPT !.reads = @ - 1] ELSE env
          /\ hist' = [hist EXCEPT !.decoded =
                         @ \cup {[by |-> c, bytes |-> out.messages[j]] :
                                    j \in DOMAIN out.messages}]
    /\ SetR(c, [tr[c] EXCEPT !.pc = "loop"])
    /\ UNCHANGED <<tw, main, lock, wire, accepted>>

\* lines 584-587: end-of-stream: connection_error once; lines 580-582 and
\* 371-373: the read raises: connection_error in read() and again in the loop
R_ReadFail(c) ==
    /\ tr[c].pc = "read"
    /\ \/ ~ReadingOpen(self, c) /\ UNCHANGED env
       \/ CanFault /\ env' = Fault
    /\ LET s0 == [self EXCEPT !.reading[c] = "none"] IN
       \/ self.reading[c] # "none" /\ self' = connection_error(s0, c)
       \/ self' = connection_error(connection_error(s0, c), c)
    /\ SetR(c, [tr[c] EXCEPT !.pc = "loop"])
    /\ UNCHANGED <<tw, main, lock, wire, accepted, hist>>

\* line 368: handle_messages: the base class handles the batch under the
\* lock (line 654)
R_Dispatch(c) ==
    /\ tr[c].pc = "dispatch"
    /\ lock = "free"
    /\ self' = base_handle_messages(self, tr[c].messages)
    /\ hist' = [hist EXCEPT !.stops_seen = @ \o StopsOf(tr[c].messages)]
    /\ SetR(c, [tr[c] EXCEPT !.pc = "job"])
    /\ UNCHANGED <<tw, main, lock, wire, accepted, env>>

\* lines 655-657, without the lock: the next record of the batch is skipped
\* when an external stop is recorded
R_Job(c) ==
    /\ tr[c].pc = "job"
    /\ SetR(c, IF tr[c].messages = <<>> THEN [tr[c] EXCEPT !.pc = "loop"]
                ELSE IF self.external_stopped THEN [tr[c] EXCEPT !.messages = Tail(@)]
                ELSE [tr[c] EXCEPT !.pc = "job_fire"])
    /\ UNCHANGED <<self, tw, main, lock, wire, accepted, env, hist>>

\* lines 659-666: the events of the record are fired
R_JobFire(c) ==
    /\ tr[c].pc = "job_fire"
    /\ self' = job_message(self, Head(tr[c].messages))
    /\ SetR(c, [tr[c] EXCEPT !.pc = "job", !.messages = Tail(@)])
    /\ UNCHANGED <<tw, main, lock, wire, accepted, env, hist>>

\* ------------------------------------------------------- shutdown calls
\* wait_sending_last_messages, lines 380-382: the drain flag is set ...
Drain ==
    /\ main.pc = "idle"
    /\ env.calls > 0
    /\ env' = [env EXCEPT !.calls = @ - 1]
    /\ IF self.active /\ self.online
       THEN /\ self' = [self EXCEPT !.stop_on_empty_queue = TRUE]
            /\ main' = [main EXCEPT !.pc = "join"]
            /\ hist' = [hist EXCEPT !.drain_on =
                          {c \in Channels : is_connected(self, c) /\ is_registered(self, c)}]
       ELSE UNCHANGED <<self, main, hist>>
    /\ UNCHANGED <<tw, tr, lock, wire, accepted>>

\* ... lines 387-398: and the call returns when no writer thread is alive
DrainReturn ==
    /\ main.pc = "join"
    /\ \A c \in Channels : tw[c].pc \in {"off", "done"}
    /\ main' = [main EXCEPT !.pc = "idle"]
    /\ UNCHANGED <<self, tw, tr, lock, wire, accepted, env, hist>>

\* end(), lines 251-253
End ==
    /\ main.pc = "idle"
    /\ env.calls > 0
    /\ env' = [env EXCEPT !.calls = @ - 1]
    /\ self' = [self EXCEPT !.expect_close = TRUE]
    /\ main' = [main EXCEPT !.pc = "end_send", !.todo = env.chans]
    /\ hist' = [hist EXCEPT !.end_call = IF self.active /\ self.online THEN "on" ELSE "off",
                            !.end_id = self.message_id]
    /\ UNCHANGED <<tw, tr, lock, wire, accepted>>

\* end(), line 254: send_message({'type': 'end'}, channel) in the caller's
\* thread: nothing when the channel is not connected, else one chunk
EndSend(c) ==
    /\ main.pc = "end_send"
    /\ c \in main.todo
    /\ main' = [main EXCEPT !.todo = @ \ {c}]
    /\ IF ~is_connected(self, c)
       THEN UNCHANGED <<self, wire, env>>
       ELSE \/ /\ StreamUsable(self, c, "ssh_stream_stdins")
               /\ wire' = [wire EXCEPT ![c] = Append(@, Chunk(0, 1, 1, "end"))]
               /\ UNCHANGED <<self, env>>
            \/ /\ \/ ~StreamUsable(self, c, "ssh_stream_stdins") /\ UNCHANGED env
                  \/ CanFault /\ env' = Fault
               /\ self' = connection_error(self, c)
               /\ UNCHANGED wire
    /\ UNCHANGED <<tw, tr, lock, accepted, hist>>

\* wait_for_close, lines 403-406
WaitForClose ==
    /\ main.pc = "end_send"
    /\ main.todo = {}
    /\ IF ~(self.active /\ self.online)
       THEN /\ main' = [main EXCEPT !.pc = "idle"]
            /\ hist' = [hist EXCEPT !.end_returned = TRUE]
            /\ UNCHANGED self
       ELSE /\ self' = [self EXCEPT !.active = FALSE]
            /\ main' = [main EXCEPT !.pc = "end_wait", !.todo = env.chans]
            /\ UNCHANGED hist
    /\ UNCHANGED <<tw, tr, lock, wire, accepted, env>>

\* the peer ends the stream of channel c: every read on it reports end-of-stream
peer_close(s, c) ==
    [s EXCEPT !.ssh_stream_stdins[c] = Dead(@),
              !.ssh_stream_stdouts[c] = Dead(@),
              !.inbound[c] = NoRecord,
              !.streams[c] = IF @ > 0 THEN @ - 1 ELSE 0,
              !.reading[c] = IF @ = "old_open" THEN "old_dead" ELSE @]

\* lines 410-416: the file of a channel, if there is one, is read until a read
\* reports end-of-stream: at once on a stream that is closed, and on an open
\* one when the peer ends it
WaitForCloseRead(c) ==
    /\ main.pc = "end_wait"
    /\ c \in main.todo
    /\ main' = [main EXCEPT !.todo = @ \ {c}]
    /\ self' = IF self.ssh_stream_stdouts[c] = "open" THEN peer_close(self, c) ELSE self
    /\ UNCHANGED <<tw, tr, lock, wire, accepted, env, hist>>

\* line 420
WaitForCloseReturn ==
    /\ main.pc = "end_wait"
    /\ main.todo = {}
    /\ self' = [self EXCEPT !.online = FALSE]
    /\ main' = [main EXCEPT !.pc = "idle"]
    /\ hist' = [hist EXCEPT !.end_returned = TRUE]
    /\ UNCHANGED <<tw, tr, lock, wire, accepted, env>>

RECURSIVE CloseAll(_, _)
CloseAll(s, cs) ==
    IF cs = {} THEN s
    ELSE LET c == CHOOSE x \in cs : TRUE
         IN CloseAll(IF HandleTruthy(s.ssh_stream[c]) THEN close_stream(s, c) ELSE s,
                     cs \ {c})

\* close(), lines 423-425: the flags are cleared ...
close_begin(s) ==
    [s EXCEPT !.active = FALSE, !.connected = EmptyDict, !.registered = EmptyDict]

\* ... lines 427-439: and after the streams were closed the event is fired
close(s) ==
    LET s1 == CloseAll(s, Channels)
        s2 == IF s1.online THEN fire(s1, "close") ELSE s1
    IN [s2 EXCEPT !.ssh_stream = [c \in Channels |-> "nokey"],
                  !.online = FALSE]

Close ==
    /\ main.pc = "idle"
    /\ env.calls > 0
    /\ env' = [env EXCEPT !.calls = @ - 1]
    /\ self' = close_begin(self)
    /\ main' = [main EXCEPT !.pc = "closing", !.was_online = self.online]
    /\ UNCHANGED <<tw, tr, lock, wire, accepted, hist>>

CloseReturn ==
    /\ main.pc = "closing"
    /\ self' = close(self)
    /\ main' = [main EXCEPT !.pc = "idle", !.closed = TRUE]
    /\ UNCHANGED <<tw, tr, lock, wire, accepted, env, hist>>

\* lines 427-433: stream.close() raises on channel c an error that is neither
\* KeyboardInterrupt nor SystemExit; the try has no handler for it, so it
\* leaves close() after the channels `before`, visited earlier, were closed
CloseRaise(c) ==
    /\ main.pc = "closing"
    /\ HandleTruthy(self.ssh_stream[c])
    /\ CanFault
    /\ env' = Fault
    /\ \E before \in SUBSET (Channels \ {c}) : self' = CloseAll(self, before)
    /\ main' = [main EXCEPT !.pc = "raised"]
    /\ UNCHANGED <<tw, tr, lock, wire, accepted, hist>>

\* ------------------------------------------------------------------- Next
\* thread_write(c) with nothing queued: the loop and connect()
Connector(c) ==
    \/ W_Loop(c) \/ W_Walk(c) \/ W_Remove(c) \/ W_Check(c)
    \/ C_Guard(c) \/ C_Enter(c) \/ C_Lock(c) \/ C_OpenOk(c) \/ C_OpenRaise(c)
    \/ C_FirstOk(c) \/ C_FirstFail(c) \/ C_HsSend(c)
    \/ C_HsRejected(c) \/ C_HsRegistered(c) \/ C_HsNoAnswer(c) \/ C_HsDispatch(c)

\* thread_write(c)
Writer(c) ==
    \/ Connector(c) \/ W_WriteOk(c) \/ W_WriteFail(c)
    \/ C_HsJob(c) \/ C_HsJobFire(c)

Reader(c) ==
    \/ R_Loop(c) \/ R_ReadOk(c) \/ R_ReadFail(c) \/ R_Dispatch(c)
    \/ R_Job(c) \/ R_JobFire(c)

Caller ==
    \/ Start
    \/ \E size \in Sizes, c \in Channels : Send(size, c)
    \/ OnSigint
    \/ Drain \/ DrainReturn
    \/ End \/ (\E c \in Channels : EndSend(c)) \/ WaitForClose
    \/ (\E c \in Channels : WaitForCloseRead(c)) \/ WaitForCloseReturn
    \/ Close \/ CloseReturn \/ (\E c \in Channels : CloseRaise(c))

Next ==
    \/ Caller
    \/ \E c \in Channels : Writer(c)
    \/ \E c \in Channels : Reader(c)
    \/ \E c \in Channels : R_ReadByte(c)

\* ---------------------------------------------------------- specifications
Budget(chans, sendto, sizes, sends, faults, reads, calls) ==
    [chans |-> chans, sendto |-> sendto, sizes |-> sizes, sends |-> sends,
     faults |-> faults, faults0 |-> faults, reads |-> reads, calls |-> calls]

\* no failure was injected so far
NoFault == env.faults = env.faults0

\* The whole client, one channel.
Init == InitWith(Budget({Primary}, {Primary}, {7, BUFFER_SIZE + 1},
                        MaxSend, MaxFaults, 0, MaxCalls))

Spec == Init /\ [][Next]_vars

\* Queue and writer: send(), the writer's walk, the drain; the readers only
\* fail.  One channel with small payloads, one channel with a payload above
\* the cap, and two channels with one message.
InitQueue ==
    \/ InitWith(Budget({Primary}, {Primary}, {7, BUFFER_SIZE + 1},
                       MaxSend, MaxFaults, 0, MaxCalls))
    \/ InitWith(Budget({Primary}, {Primary}, {7, SOFT_CAP + 1},
                       MaxSend, MaxFaults, 0, MaxCalls))
    \/ InitWith(Budget(Channels, {Primary}, {BUFFER_SIZE + 1},
                       1, MaxFaults, 0, MaxCalls))

NextQueue ==
    \/ Start
    \/ \E size \in Sizes, c \in Channels : Send(size, c)
    \/ Drain \/ DrainReturn
    \/ \E c \in Channels : Connector(c) \/ W_WriteOk(c) \/ W_WriteFail(c)
    \/ \E c \in Channels : R_Loop(c) \/ R_ReadFail(c)

SpecQueue == InitQueue /\ [][NextQueue]_vars

\* ------------------------------------------------- queue and writer claims
\* what the writer thread of channel c did on the transport, in order
WriterLog(c) == SelectSeq(wire[c], LAMBDA e : e.by = "writer")

\* the chunks the writer thread wrote to the transport of channel c
Written(c) == SelectSeq(wire[c], LAMBDA e : e.by = "writer" /\ e.ok)

\* the chunks of one payload, front to back
RECURSIVE ChunksOf(_, _, _)
ChunksOf(id, total, data) ==
    IF data = 0 THEN <<>>
    ELSE <<Chunk(id, total, data, "writer")>> \o ChunksOf(id, total, data - ChunkLen(data))

\* the chunks of the accepted messages, in the order of the send() calls
RECURSIVE Flatten(_)
Flatten(msgs) ==
    IF msgs = <<>> THEN <<>>
    ELSE ChunksOf(Head(msgs).id, Head(msgs).total, Head(msgs).total) \o Flatten(Tail(msgs))

IsPrefix(a, b) == Len(a) <= Len(b) /\ SubSeq(b, 1, Len(a)) = a

C2_ResentInFull ==
    \A c \in Channels :
        LET log == WriterLog(c)
        IN \A k \in DOMAIN log :
            /\ (log[k].ok /\ log[k].off > 0) =>
                  /\ k > 1
                  /\ log[k - 1].ok
                  /\ log[k - 1].id = log[k].id
                  /\ log[k - 1].off + log[k - 1].len = log[k].off
            /\ (~log[k].ok /\ ~\E j \in (k + 1)..Len(log) :
                        /\ log[j].ok /\ log[j].id = log[k].id
                        /\ log[j].off + log[j].len = MsgOf(accepted[c], log[k].id).total) =>
                  /\ InQueue(self.queues[c], log[k].id)
                  /\ ~MsgOf(self.queues[c], log[k].id).sent

\* a write failed behind the first chunk of a message, and the message was
\* then written again from its first chunk to its last
C2_Witness ==
    LET log == WriterLog(Primary)
    IN \E k \in DOMAIN log :
        /\ ~log[k].ok /\ log[k].off > 0
        /\ Len(log) >= k + 2
        /\ log[k + 1].ok /\ log[k + 1].id = log[k].id /\ log[k + 1].off = 0
        /\ log[k + 2].ok /\ log[k + 2].id = log[k].id /\ log[k + 2].off = log[k].off

\* message id was written to channel c in full, chunk behind chunk
Transmitted(c, id, total) ==
    LET log == WriterLog(c)
        want == ChunksOf(id, total, total)
    IN \E k \in DOMAIN log :
        k + Len(want) - 1 <= Len(log) /\ SubSeq(log, k, k + Len(want) - 1) = want

\* C3: a step that takes a message out of a queue takes one whose sent flag
\* is true and whose chunks were all written.
C3_RemovedOnlyWhenSent ==
    [][\A c \in Channels : \A k \in DOMAIN self.queues[c] :
          LET m == self.queues[c][k]
          IN ~InQueue(self'.queues[c], m.id) => m.sent /\ Transmitted(c, m.id, m.total)]_vars

\* the writer removed a sent message while a message it could not send stays
C3_Witness ==
    /\ hist.write_failed[Primary]
    /\ Len(accepted[Primary]) = 2
    /\ Len(self.queues[Primary]) = 1
    /\ tw[Primary].pc = "check"
    /\ ~self.queues[Primary][1].sent
    /\ Transmitted(Primary, accepted[Primary][1].id, accepted[Primary][1].total)

\* C4: a send() call made while the client is not active, not online or
\* draining changes no queue, not the message id counter, and writes nothing.
C4_RefusedSendNoEffect ==
    [][(env.sends' < env.sends
         /\ (~self.active \/ ~self.online \/ self.stop_on_empty_queue)) =>
       (self'.queues = self.queues /\ self'.message_id = self.message_id
         /\ wire' = wire /\ accepted' = accepted)]_vars

\* send() was refused once because the client was draining and once because
\* it was offline
C4_Witness ==
    /\ hist.refused = {"offline", "drain"}
    /\ env.sends = 0

\* C5: when the drain was requested on a connected and registered channel and
\* nothing failed, the channel's writer thread has ended only with its queue empty.
C5_DrainEmptiesQueue ==
    \A c \in hist.drain_on :
        (tw[c].pc = "done" /\ NoFault /\ self.connection_errors = 0)
            => self.queues[c] = <<>>

\* ---------------------------------------------------------------------
\* Connecting: no messages are sent; the threads of two channels with one
\* failure, or of one channel with two failures, and an interrupt.
InitConnect ==
    \/ InitWith(Budget(Channels, {}, {}, 0, MaxFaults, 0, 0))
    \/ InitWith(Budget({Primary}, {}, {}, 0, MaxFaults + 1, 0, 0))

NextConnect ==
    \/ Start
    \/ OnSigint
    \/ \E c \in Channels : Connector(c)
    \/ \E c \in Channels : R_Loop(c) \/ R_ReadFail(c)

SpecConnect == InitConnect /\ [][NextConnect]_vars

\* this step ends a call of connect(c) that got as far as opening the
\* transport, and the channel is not connected after it
FailedAttempt(c) ==
    /\ tw[c].pc \in {"open", "first", "hs_wait"}
    /\ tw'[c].pc = "loop"
    /\ ~is_connected(self', c)

\* C6: the first connect attempt of the client fails, on a channel that was
\* never connected and with the go-offline policy on: after it online is
\* false and 'offline' was fired exactly once.
C6_FirstFailureGoesOffline ==
    [][\A c \in Channels :
          (/\ FailedAttempt(c)
           /\ ~self.was_connected_once[c]
           /\ self.go_offline_on_first_failed_attempt
           /\ self.connection_errors = 0 /\ self.connection_tries = 0)
          => (~self'.online /\ self'.fired["offline"] = 1)]_vars

\* C7: a step of the threads of a channel that was connected once leaves
\* online as it is and fires no 'offline'.
C7_NoOfflineAfterConnectedOnce ==
    [][\A c \in Channels :
          (self.was_connected_once[c] /\ (tw'[c] # tw[c] \/ tr'[c] # tr[c]))
          => (self'.online = self.online
              /\ self'.fired["offline"] = self.fired["offline"])]_vars

\* the channel was connected once, lost its connection, and its next connect
\* attempt failed in the handshake: the client is still online
C7_Witness ==
    /\ self.was_connected_once[Primary]
    /\ self.connection_tries >= 1
    /\ self.connection_errors >= 2
    /\ tw[Primary].pc = "loop"
    /\ self.online /\ self.fired["offline"] = 0

\* C8: a channel never has a second stream opened while its reader thread
\* still reads from the first, open one.
C8_OneOpenStream ==
    \A c \in Channels : self.streams[c] >= 2 => self.reading[c] # "old_open"

\* C9: once 'aborted' was received on the primary channel the client is not
\* active, and no step of any channel opens a transport any more.
C9_NoConnectAfterAborted ==
    [][self.fired["aborted"] >= 1 =>
          /\ ~self.active
          /\ \A c \in Channels :
                ~(tw[c].pc = "open" /\ tw'[c].pc = "first")]_vars

\* ---------------------------------------------------------------------
\* Reading: the peer's records arrive on two channels, in the handshake
\* answer and in later reads; on one channel the connection also fails once.
InitRead ==
    \/ InitWith(Budget(Channels, {}, {}, 0, 0, MaxReads, 0))
    \/ InitWith(Budget({Primary}, {}, {}, 0, MaxFaults, MaxReads, 0))

NextRead ==
    \/ Start
    \/ \E c \in Channels : Connector(c) \/ C_HsJob(c) \/ C_HsJobFire(c)
    \/ \E c \in Channels : Reader(c)

SpecRead == InitRead /\ [][NextRead]_vars

\* C10: 'stop' is fired at most once, for the first stop record handled and
\* with that record's force value; later stop records fire nothing.
C10_StopFiredOnce ==
    /\ self.fired["stop"] = Len(self.stop_force)
    /\ self.stop_force = IF hist.stops_seen = <<>> THEN <<>>
                         ELSE <<Head(hist.stops_seen)>>
    /\ self.external_stopped <=> hist.stops_seen # <<>>

\* three stop records were handled, the first with force = false, a later one
\* with force = true, and 'stop' was fired once, with force = false
C10_Witness ==
    /\ Len(hist.stops_seen) >= 3
    /\ ~hist.stops_seen[1]
    /\ hist.stops_seen[2] \/ hist.stops_seen[3]
    /\ self.fired["stop"] = 1
    /\ self.stop_force = <<FALSE>>

\* ---------------------------------------------------------------------
\* C11: a channel that is registered is connected.
C11_RegisteredImpliesConnected ==
    \A c \in Channels : is_registered(self, c) => is_connected(self, c)

\* C16: once a connect attempt failed with a 'Permission denied' diagnostic,
\* no thread goes on to another connect attempt (the process has ended).
C16_DeniedEndsProcess ==
    [][hist.denied =>
          \A c \in Channels : ~(tw[c].pc = "lock" /\ tw'[c].pc = "open")]_vars

\* C17: a step of the handshake on a channel other than the primary one fires
\* no 'registration', 'aborted' or 'registration_failed'.
C17_LifecycleEventsOnlyOnPrimary ==
    [][\A c \in Channels \ {Primary} :
          (tw[c].pc \in {"hs_send", "hs_wait", "hs_dispatch"} /\ tw'[c] # tw[c])
          => \A e \in {"registration", "aborted", "registration_failed"} :
                self'.fired[e] = self.fired[e]]_vars

\* C18: 'registration' is fired at most once.
C18_RegistrationFiredOnce == self.fired["registration"] <= 1

\* C19: once 'stop' was fired, no step fires 'parameter_changed' or 'action'.
C19_NoEventsAfterStop ==
    [][self.fired["stop"] >= 1 =>
          /\ self'.fired["parameter_changed"] = self.fired["parameter_changed"]
          /\ self'.fired["action"] = self.fired["action"]]_vars

\* ---------------------------------------------------------------------
\* Ending: messages are queued and end() is called, on one channel with one
\* failure, or with two channels and no failure.
InitEnd ==
    \/ InitWith(Budget({Primary}, {Primary}, {7, BUFFER_SIZE + 1}, 1, MaxFaults, 0, MaxCalls))
    \/ InitWith(Budget(Channels, {Primary}, {7}, 1, 0, 0, MaxCalls))

NextEnd ==
    \/ Start
    \/ \E size \in Sizes, c \in Channels : Send(size, c)
    \/ End \/ (\E c \in Channels : EndSend(c)) \/ WaitForClose
    \/ (\E c \in Channels : WaitForCloseRead(c)) \/ WaitForCloseReturn
    \/ \E c \in Channels : Connector(c) \/ W_WriteOk(c) \/ W_WriteFail(c)
    \/ \E c \in Channels : R_Loop(c) \/ R_ReadFail(c)

SpecEnd == InitEnd /\ [][NextEnd]_vars

\* message id was written to channel c in full before position k of wire[c]
TransmittedBefore(c, k, id, total) ==
    LET log == SelectSeq(SubSeq(wire[c], 1, k - 1), LAMBDA e : e.by = "writer")
        want == ChunksOf(id, total, total)
    IN \E j \in DOMAIN log :
        j + Len(want) - 1 <= Len(log) /\ SubSeq(log, j, j + Len(want) - 1) = want

\* C12: the end marker of a channel is on the wire behind every message that
\* was queued on the channel when end() was called.
C12_EndMarkerLast ==
    \A c \in Channels : \A k \in DOMAIN wire[c] :
        (wire[c][k].by = "end" /\ wire[c][k].ok) =>
            \A j \in DOMAIN accepted[c] :
                accepted[c][j].id <= hist.end_id =>
                    TransmittedBefore(c, k, accepted[c][j].id, accepted[c][j].total)

\* C13: every write to a channel's transport is made by the channel's writer
\* thread (its queue walk or its handshake).
C13_OnlyWriterWrites ==
    \A c \in Channels : \A k \in DOMAIN wire[c] :
        wire[c][k].by \in {"writer", "on_connect"}

\* C15: when an end() that was called with the client active and online
\* returns, no channel has a transport still open and the client is offline.
C15_EndWaitsForEof ==
    [][(hist.end_call = "on" /\ ~hist.end_returned /\ hist'.end_returned) =>
          /\ ~self'.online
          /\ \A c \in Channels : self'.streams[c] = 0]_vars

InitClose ==
    \/ InitWith(Budget({Primary}, {}, {}, 0, MaxFaults, 0, MaxCalls + 1))
    \/ InitWith(Budget(Channels, {}, {}, 0, MaxFaults, 0, MaxCalls))

NextClose ==
    \/ Start
    \/ Close \/ CloseReturn \/ (\E c \in Channels : CloseRaise(c))
    \/ \E c \in Channels : Connector(c)
    \/ \E c \in Channels : R_Loop(c) \/ R_ReadFail(c)

SpecClose == InitClose /\ [][NextClose]_vars

\* C14: when close() returns the client is not active and not online, no
\* channel is connected or registered, the call has fired 'close' once if the
\* client was online when it was called and not otherwise, and 'close' was
\* fired at most once in all.
C14_ClosePostcondition ==
    [][(main.pc = "closing" /\ main'.pc = "idle") =>
          /\ ~self'.active /\ ~self'.online
          /\ \A c \in Channels : ~is_connected(self', c) /\ ~is_registered(self', c)
          /\ self'.fired["close"] =
                self.fired["close"] + (IF main.was_online THEN 1 ELSE 0)
          /\ self'.fired["close"] <= 1]_vars

\* ---------------------------------------------------------------------
\* C21: while the client is offline no connect() opens a transport and none
\* sends a registration request, on any channel.
C21_NoConnectWhileOffline ==
    [][(~self.online /\ ~self'.online) =>
          \A c \in Channels :
             /\ ~(tw[c].pc = "open" /\ tw'[c].pc = "first")
             /\ ~(tw[c].pc = "hs_send" /\ Len(wire'[c]) > Len(wire[c]))]_vars

\* ---------------------------------------------------------------------
\* Recovery: send() calls and transport failures, on one channel and on two;
\* every thread that can take a step eventually takes one (the threads are
\* started as daemon threads and only sleep between iterations, lines 353-355).
InitRecover ==
    \/ InitWith(Budget({Primary}, {Primary}, {7, BUFFER_SIZE + 1},
                       MaxSend, MaxFaults, 0, 0))
    \/ InitWith(Budget(Channels, {Primary}, {7}, 1, MaxFaults, 0, 0))

NextRecover ==
    \/ Start
    \/ \E size \in Sizes, c \in Channels : Send(size, c)
    \/ \E c \in Channels : Connector(c) \/ W_WriteOk(c) \/ W_WriteFail(c)
    \/ \E c \in Channels : R_Loop(c) \/ R_ReadFail(c)

FairRecover ==
    \A c \in Channels :
        /\ WF_vars(Connector(c) \/ W_WriteOk(c) \/ W_WriteFail(c))
        /\ WF_vars(R_Loop(c) \/ R_ReadFail(c))

SpecRecover == InitRecover /\ [][NextRecover]_vars /\ FairRecover

\* channel c is connected and registered and every accepted message was
\* written in full and has left the queue
Recovered(c) ==
    /\ is_connected(self, c) /\ is_registered(self, c)
    /\ self.queues[c] = <<>>
    /\ \A j \in DOMAIN accepted[c] :
          Transmitted(c, accepted[c][j].id, accepted[c][j].total)

StartsMessage(c) == tw[c].pc = "walk" /\ tw'[c].pc = "write"

\* C23, as stated: a message starts to be transmitted only in a state in
\* which online, connected[channel] and registered[channel] are all true.
C23_TransmitsOnlyOnline ==
    [][\A c \in Channels :
          StartsMessage(c) =>
             /\ self.online
             /\ c \in DOMAIN self.connected /\ self.connected[c]
             /\ c \in DOMAIN self.registered /\ self.registered[c]]_vars

\* C23, amended: a walk over the queue starts only with online, connected
\* and registered all true; before every message connected and registered
\* (not online) are true, and a walk that finds one of them false stops.
C23_WalkGuards ==
    [][\A c \in Channels :
          /\ (tw[c].pc = "loop" /\ tw'[c].pc = "walk") =>
                /\ self.online
                /\ c \in DOMAIN self.connected /\ self.connected[c]
                /\ c \in DOMAIN self.registered /\ self.registered[c]
          /\ StartsMessage(c) =>
                /\ c \in DOMAIN self.connected /\ self.connected[c]
                /\ c \in DOMAIN self.registered /\ self.registered[c]
          /\ (tw[c].pc = "walk" /\ tw'[c] # tw[c]
                /\ ~(/\ c \in DOMAIN self.connected /\ self.connected[c]
                     /\ c \in DOMAIN self.registered /\ self.registered[c])) =>
                tw'[c].pc = "remove"]_vars

\* the writer is transmitting a message although the client went offline
\* after the walk had started
C23_Witness ==
    /\ tw[Primary].pc = "write"
    /\ ~self.online
    /\ is_connected(self, Primary) /\ is_registered(self, Primary)

\* C24: when closing one channel's transport raises inside close(), the call
\* still closes the transport of every channel, fires 'close' if the client
\* was online, and leaves the client offline.
C24_CloseIgnoresTransportErrors ==
    [][(main.pc = "closing" /\ main'.pc = "raised") =>
          /\ \A c \in Channels : self'.ssh_stream[c] # "open"
          /\ self'.fired["close"] =
                self.fired["close"] + (IF main.was_online THEN 1 ELSE 0)
          /\ ~self'.online]_vars

\* ---------------------------------------------------------------------
\* C25: a step that fires 'registration_failed' is a step in which the peer's
\* first handshake record is 'registration_failed'.
C25_RegistrationFailedOnlyOnAnswer ==
    [][self'.fired["registration_failed"] # self.fired["registration_failed"] =>
          \E c \in Channels : C_HsAnswer(c, "registration_failed")]_vars

\* ---------------------------------------------------------------------
\* one transport failure is injected into a read of the reader thread, into
\* the read of the first frame in connect(), or into a write of the walk
TransportFailure(c) ==
    /\ env'.faults < env.faults
    /\ \/ tr[c].pc = "read" /\ tr'[c].pc = "loop"
       \/ tw[c].pc = "first" /\ tw'[c].pc = "loop"
       \/ tw[c].pc = "write" /\ tw'[c].pc = "remove"

\* C26: with the client active and not expecting close, one transport failure
\* fires 'disconnect' once and adds one to connection_errors.
C26_OneDisconnectPerFailure ==
    [][\A c \in Channels :
          (self.active /\ ~self.expect_close /\ TransportFailure(c)) =>
             /\ self'.fired["disconnect"] = self.fired["disconnect"] + 1
             /\ self'.connection_errors = self.connection_errors + 1]_vars

\* ---------------------------------------------------------------------
\* C27: a step of the threads of one channel, a connection error included,
\* leaves the connected and registered flags of every other channel as they are.
C27_OtherChannelsUntouched ==
    [][\A c, d \in Channels :
          (c # d /\ (tw'[c] # tw[c] \/ tr'[c] # tr[c])) =>
             /\ is_connected(self', d) = is_connected(self, d)
             /\ is_registered(self', d) = is_registered(self, d)]_vars

\* ---------------------------------------------------------------------
\* Handshake and walk: one channel with one message to send, one failure and
\* one batch of inbound records, and two channels with one message and one
\* failure; the whole writer thread, on_connect with its handle_messages included.
InitHandshake ==
    \/ InitWith(Budget({Primary}, {Primary}, {7, BUFFER_SIZE + 1}, 1, MaxFaults, 1, 0))
    \/ InitWith(Budget(Channels, {Primary}, {7}, 1, MaxFaults, 0, 0))

NextHandshake ==
    \/ Start
    \/ \E size \in Sizes, c \in Channels : Send(size, c)
    \/ \E c \in Channels : Writer(c)
    \/ \E c \in Channels : R_Loop(c) \/ R_ReadFail(c)

SpecHandshake == InitHandshake /\ [][NextHandshake]_vars

\* the writer thread of channel c writes a chunk of a queued message
WritesChunk(c) ==
    /\ tw[c].pc = "write"
    /\ Len(wire'[c]) > Len(wire[c])
    /\ wire'[c][Len(wire'[c])].ok

\* C28: on a transport-level connection on_connect is not invoked a second
\* time, and the writer writes a chunk of a queued message only on a
\* connection whose on_connect has returned true.
C28_OnConnectOnceBeforeWrites ==
    [][\A c \in Channels :
          /\ hist'.on_connect[c] # "again"
          /\ WritesChunk(c) => hist.on_connect[c] = "true"]_vars

\* a connection of the channel failed; on a later one on_connect returned true
\* after handling a batch of records, and the queued message was written on it
C28_Witness ==
    /\ hist.on_connect[Primary] = "true"
    /\ self.fired["registration"] >= 1
    /\ self.fired["disconnect"] >= 1
    /\ env.reads = 0
    /\ Len(accepted[Primary]) = 1
    /\ Recovered(Primary)

\* ---------------------------------------------------------------------
\* Drain: wait_sending_last_messages() on one channel, with one message and
\* one transport failure; the writer thread, the reader thread and the join
\* loop of the caller each take a step whenever they can.
InitDrain ==
    InitWith(Budget({Primary}, {Primary}, {7}, 1, MaxFaults, 0, MaxCalls))

NextDrain ==
    \/ Start
    \/ \E size \in Sizes, c \in Channels : Send(size, c)
    \/ Drain \/ DrainReturn
    \/ \E c \in Channels : Connector(c) \/ W_WriteOk(c) \/ W_WriteFail(c)
    \/ \E c \in Channels : R_Loop(c) \/ R_ReadFail(c)

FairDrain ==
    /\ WF_vars(DrainReturn)
    /\ \A c \in Channels :
          /\ WF_vars(Connector(c) \/ W_WriteOk(c) \/ W_WriteFail(c))
          /\ WF_vars(R_Loop(c) \/ R_ReadFail(c))

SpecDrain == InitDrain /\ [][NextDrain]_vars /\ FairDrain

\* C29: a wait_sending_last_messages() that has set the drain flag and joins
\* the writer threads eventually returns.
C29_DrainReturns == (main.pc = "join") ~> (main.pc = "idle")

InConnectBody(c) ==
    tw[c].pc \in {"lock", "open", "first", "hs_send", "hs_wait",
                  "hs_dispatch", "hs_job", "hs_job_fire"}

\* C31: at most one writer thread is inside the body of connect() at a time.
C31_OneConnectAtATime ==
    \A c, d \in Channels : (InConnectBody(c) /\ InConnectBody(d)) => c = d

\* ---------------------------------------------------------------------
\* Decoding: the peer sends application records byte by byte on one channel
\* and on two, with one transport failure; the reader threads read them.
InitDecode ==
    \/ InitWith(Budget({Primary}, {}, {}, 0, MaxFaults, MaxReads, 0))
    \/ InitWith(Budget(Channels, {}, {}, 0, MaxFaults, MaxReads, 0))

NextDecode ==
    \/ Start
    \/ \E c \in Channels : Connector(c)
    \/ \E c \in Channels : R_Loop(c) \/ R_ReadByte(c) \/ R_ReadFail(c)

SpecDecode == InitDecode /\ [][NextDecode]_vars

\* the record is the bytes of one record the peer sent on channel c, in order
AsSent(c, bytes) ==
    /\ Len(bytes) = Len(Frame)
    /\ \A k \in DOMAIN bytes :
          /\ bytes[k].ch = c
          /\ bytes[k].rec = bytes[1].rec
          /\ bytes[k].k = k

\* C32: every record the reader thread of a channel hands to handle_messages
\* is one record that the peer sent on that channel, byte for byte.
C32_DecodedAsSent ==
    \A d \in hist.decoded : AsSent(d.by, d.bytes)

\* ---------------------------------------------------------------------
\* C33: the step of connect() that runs exec_command('stream') (lines
\* 182-195, whether it returns or raises) never starts from a transport
\* handle that was closed earlier.
C33_NoCommandOnClosedHandle ==
    [][\A c \in Channels :
          (tw[c].pc = "open" /\ tw'[c].pc # "open") =>
             self.ssh_stream[c] # "closed"]_vars

\* ---------------------------------------------------------------------
\* C34: a channel that counts as connected has an open transport handle.
C34_ConnectedImpliesOpen ==
    \A c \in Channels : is_connected(self, c) => self.ssh_stream[c] = "open"

====
